---------------------------- MODULE Spec2Model ----------------------------
(***************************************************************************)
(* A model of nbs/LLM_from_Scratch_1.ipynb: a minimal GPT, its generation  *)
(* loop with three sampling variants, its dataset and its training loop.   *)
(*                                                                         *)
(* Tensors are modelled by what the control flow reads of them: shapes,    *)
(* index ranges, the boolean causal mask, the order of logits and the      *)
(* support of probability vectors.  Real-valued parameters are an opaque   *)
(* version number that every optimizer update advances.                    *)
(***************************************************************************)
EXTENDS Integers, Sequences, FiniteSets, TLC

VARIABLES
    \* the model
    config,          \* the ModelConfig the model is built from
    gpt,             \* the result of GPT(config): not built, AssertionError, or the model
    attn,            \* the last direct attention / forward call: its arguments and outcome
    mode,            \* model.training: "train" or "eval"
    params,          \* the parameter set, as the number of the update that produced it
    \* one generate call
    gen_pc,          \* "idle", "loop", "done" or "failed"
    gen_variant,     \* which definition of generate runs: "greedy", "temperature", "topk"
    temp,            \* generate's temp argument
    prefix_tokens,   \* tokenizer.encode(prefix)
    max_new_tokens,  \* generate's max_new_tokens argument
    token_ids,       \* the growing token sequence
    gen_iter,        \* completed iterations of the for loop
    gen_fwd_len,     \* length of the sequence handed to the last model(token_ids), 0 if none
    gen_error,       \* the exception that ended the call, "none" if none
    gen_text,        \* the string `prefix`, as the texts of the tokens that spell it
    \* the training cell
    tr_pc,           \* the statement the training cell is at; after the cell has ended,
                     \* "loaded" or "load_failed" once the inference cell has run
    epochs,          \* epochs
    log_freq,        \* log_freq
    n_batches,       \* len(train_dl)
    epoch,           \* the outer loop's variable
    batch_i,         \* the inner loop's enumerate index i, -1 before an epoch's first batch
    val_i,           \* validation batches evaluate has gone through
    val_loss,        \* evaluate's result, as the parameter set it was computed on
    losses,          \* the list `losses`
    checkpoint,      \* the parameter sets written to model.pth, the last one being the file
    loss,            \* the batch `loss` was computed on, as <<epoch, batch_i>>
    grad,            \* the batches whose gradients are accumulated in the .grad fields
    step_ops,        \* history: the operations of the current training step, in order
    \* a call of topk
    tk_logits,       \* its logits argument
    tk_k,            \* its k argument
    tk_out,          \* its outcome
    tk_idx,          \* an index drawn from the returned probabilities
    \* the dataset
    ds_tokens,       \* WikiTextDataset.tokens
    ds_max_len,      \* WikiTextDataset.max_len
    ds_out           \* the last __getitem__ call: its index and the pair it returned

mvars == <<config, gpt, attn, mode, params>>
gvars == <<gen_pc, gen_variant, temp, prefix_tokens, max_new_tokens, token_ids,
           gen_iter, gen_fwd_len, gen_error, gen_text>>
tvars == <<tr_pc, epochs, log_freq, n_batches, epoch, batch_i, val_i, val_loss, losses,
           checkpoint, loss, grad, step_ops>>
kvars == <<tk_logits, tk_k, tk_out, tk_idx>>
dvars == <<ds_tokens, ds_max_len, ds_out>>

----------------------------------------------------------------------------
(* Bounds of the model                                                     *)

MaxEmbDim == 4
MaxHeads == 3
MaxLayers == 2
MaxContext == 3

\* vocabulary sizes tried: one below and one above topk's default k
VocabSizes == {4, 6}

Min(a, b) == IF a <= b THEN a ELSE b

----------------------------------------------------------------------------
(* Model architecture                                                      *)

\* Triu with the diagonal argument ignored (the diagonal itself is masked too)
TriuNoDiagonalShift(n, d) == [i \in 0..(n - 1) |-> [j \in 0..(n - 1) |-> j - i >= 0]]

\* torch.triu(torch.ones(n, n), diagonal=d).bool(): entry (i, j) is kept
\* (TRUE) iff j - i >= d.  TRUE in an attn_mask means "not allowed to attend".
Triu(n, d) == [i \in 0..(n - 1) |-> [j \in 0..(n - 1) |-> j - i >= d]]

\* MultiheadAttention.__init__: the assert, then the mask buffer
MultiheadAttentionInit(emb_dim, heads, context) ==
    IF emb_dim % heads # 0
    THEN [status |-> "AssertionError"]
    ELSE [status |-> "ok", context |-> context, mask |-> Triu(context, 1)]

\* Block.__init__: builds its MultiheadAttention first; an exception propagates
BlockInit(emb_dim, heads, context) ==
    LET mha == MultiheadAttentionInit(emb_dim, heads, context)
    IN  IF mha.status # "ok" THEN [status |-> mha.status] ELSE [status |-> "ok", mha |-> mha]

\* GPT.__init__: the embeddings, then one Block per element of range(layers)
GPTInit(c) ==
    LET blocks == [l \in 1..c.layers |-> BlockInit(c.emb_dim, c.heads, c.context)]
    IN  IF \E l \in 1..c.layers : blocks[l].status # "ok"
        THEN [status |-> "AssertionError"]
        ELSE [status |-> "ok", pos_rows |-> c.context, tok_rows |-> c.vocab,
              decoder |-> blocks]

NotBuilt == [status |-> "none"]

IsModel(g) == g.status = "ok"

\* self.mask[:seq_len, :seq_len] after seq_len = min(seq_len, self.context)
AttnMask(mha, seq_len) ==
    LET n == Min(seq_len, mha.context)
    IN  [i \in 0..(n - 1) |-> [j \in 0..(n - 1) |-> mha.mask[i][j]]]

\* MultiheadAttention.forward on an input of seq_len positions:
\* nn.MultiheadAttention rejects a 2-D mask whose shape is not (seq_len, seq_len)
MHAForward(mha, seq_len) ==
    LET m == AttnMask(mha, seq_len)
    IN  [seq_len |-> seq_len,
         mask    |-> m,
         result  |-> IF Min(seq_len, mha.context) = seq_len THEN "ok" ELSE "RuntimeError"]

\* GPT.forward on a [batch, seq_len] input: pos = arange(seq_len) indexes the
\* positional table, which has `context` rows; then the decoder runs.
GPTForward(g, seq_len) ==
    IF seq_len > g.pos_rows
    THEN "IndexError"
    ELSE IF \E l \in DOMAIN g.decoder : MHAForward(g.decoder[l].mha, seq_len).result # "ok"
         THEN "RuntimeError"
         ELSE "ok"

----------------------------------------------------------------------------
(* Sampling                                                                *)

\* def topk(logits, k=5)
K_DEFAULT == 5

\* logits of one position are integers standing for floats; every nonzero
\* temperature tried divides every logit value, so logits / temp is exact
LogitVals == {0, 2}
TempSet == {-1, 0, 1, 2}

Tokens(v) == 0..(v - 1)
LogitVectors(v) == [Tokens(v) -> LogitVals]

\* floating-point values
Fin(x) == [k |-> "fin", v |-> x]
PosInf == [k |-> "inf", v |-> 1]
NegInf == [k |-> "inf", v |-> -1]
NaN == [k |-> "nan", v |-> 0]

\* x / t in floating point: a zero divisor gives +-inf or nan, never an exception
FDiv(x, t) ==
    IF t = 0
    THEN IF x > 0 THEN PosInf ELSE IF x < 0 THEN NegInf ELSE NaN
    ELSE IF t > 0 THEN Fin(x \div t) ELSE Fin(-(x \div (-t)))

\* logits (a vector of finite values) as floats, and logits / temp
AsFloat(logits) == [i \in DOMAIN logits |-> Fin(logits[i])]
Scale(logits, t) == [i \in DOMAIN logits |-> FDiv(logits[i], t)]

\* a is ordered strictly before b by torch.topk (nan counts as the largest value)
TopkGt(a, b) ==
    IF a.k = "nan" THEN b.k # "nan"
    ELSE IF b.k = "nan" THEN FALSE
    ELSE IF a.k = "inf" THEN a.v = 1 /\ b # PosInf
    ELSE IF b.k = "inf" THEN b.v = -1
    ELSE a.v > b.v

\* torch.argmax(logits, dim=-1): the first index of the maximal value
Argmax(logits) ==
    CHOOSE i \in DOMAIN logits :
        /\ \A j \in DOMAIN logits : logits[j] <= logits[i]
        /\ \A j \in DOMAIN logits : j < i => logits[j] < logits[i]

\* float32: exp(-d) is exactly 0 for d of UnderflowGap or more (it lies below
\* half the smallest subnormal); from about SubnormalGap on, a probability
\* exp(-d) / sum of a vocabulary-sized vector is subnormal, and whether it is
\* kept, rounded to 0 or flushed to 0 depends on the sum and the device
SubnormalGap == 76
UnderflowGap == 104

\* the largest finite value of x
FiniteMax(x) ==
    LET fin == {x[i].v : i \in {j \in DOMAIN x : x[j].k = "fin"}}
    IN  CHOOSE m \in fin : \A v \in fin : v <= m

\* the distances below the maximum from which softmax may return exactly 0:
\* UnderflowGap, or the distance of an entry in the subnormal range
ZeroFrom(x) ==
    {UnderflowGap} \cup
    {d \in {FiniteMax(x) - x[i].v : i \in {j \in DOMAIN x : x[j].k = "fin"}} :
        d >= SubnormalGap /\ d < UnderflowGap}

\* torch.softmax(x, dim=-1), by the sign of each probability ("pos", "zero" or
\* "nan"): the vectors it may return.  exp(x - max) is nan wherever inf - inf
\* occurs and the sum spreads it; a finite entry far below the maximum
\* underflows to 0, and no entry is 0 while a smaller one is not.
Softmax(x) ==
    IF \/ \E i \in DOMAIN x : x[i] = NaN \/ x[i] = PosInf
       \/ \A i \in DOMAIN x : x[i] = NegInf
    THEN {[i \in DOMAIN x |-> "nan"]}
    ELSE {[i \in DOMAIN x |->
              IF x[i] = NegInf \/ FiniteMax(x) - x[i].v >= g THEN "zero" ELSE "pos"]
          : g \in ZeroFrom(x)}

\* TorchTopk without the order: any k indices
TorchTopkAnyK(x, k) == {S \in SUBSET (DOMAIN x) : Cardinality(S) = k}

\* torch.topk(x, k): the index sets it may return.  Which of several equal
\* values at the boundary it takes is not specified and differs by device.
TorchTopk(x, k) ==
    {S \in SUBSET (DOMAIN x) :
        /\ Cardinality(S) = k
        /\ \A s \in S : \A o \in (DOMAIN x) \ S : ~TopkGt(x[o], x[s])}

Failure(e) == [err |-> e, idx |-> 0]

\* topk(logits, k): zeros, with softmax(topk_vals) scattered to topk_idxs
topk(x, k) ==
    IF k < 0 \/ k > Cardinality(DOMAIN x)
    THEN {[err |-> "RuntimeError", probs |-> [i \in DOMAIN x |-> "zero"]]}
    ELSE UNION {{[err   |-> "none",
                  probs |-> [i \in DOMAIN x |-> IF i \in S THEN sm[i] ELSE "zero"]]
                 : sm \in Softmax([i \in S |-> x[i]])}
                : S \in TorchTopk(x, k)}

\* torch.multinomial(probs, num_samples=1): rejects nan and an all-zero vector
Multinomial(probs) ==
    IF \E i \in DOMAIN probs : probs[i] = "nan"
    THEN {Failure("RuntimeError")}
    ELSE IF \A i \in DOMAIN probs : probs[i] = "zero"
         THEN {Failure("RuntimeError")}
         ELSE {[err |-> "none", idx |-> i] : i \in {j \in DOMAIN probs : probs[j] = "pos"}}

\* the lines of generate between the forward pass and torch.cat, per variant
SampleOutcomes(variant, logits, t) ==
    IF variant = "greedy"
    THEN {[err |-> "none", idx |-> Argmax(logits)]}
    ELSE IF variant = "temperature"
         THEN UNION {Multinomial(sm) : sm \in Softmax(Scale(logits, t))}
         ELSE UNION {IF o.err # "none" THEN {Failure(o.err)} ELSE Multinomial(o.probs)
                     : o \in topk(Scale(logits, t), K_DEFAULT)}

----------------------------------------------------------------------------
(* Specification of construction and forward calls                         *)

Configs ==
    [vocab : VocabSizes, emb_dim : 1..MaxEmbDim, heads : 1..MaxHeads,
     layers : 0..MaxLayers, context : 1..MaxContext]

NoCall == [kind |-> "none"]

\* no generate call has been made
GenIdle ==
    /\ gen_pc = "idle"
    /\ gen_variant = "greedy"
    /\ temp = 1
    /\ prefix_tokens = <<>>
    /\ max_new_tokens = 0
    /\ token_ids = <<>>
    /\ gen_iter = 0
    /\ gen_fwd_len = 0
    /\ gen_error = "none"
    /\ gen_text = <<>>

\* the training cell has not run
TrainIdle ==
    /\ tr_pc = "idle"
    /\ epochs = 0
    /\ log_freq = 1
    /\ n_batches = 0
    /\ epoch = 0
    /\ batch_i = -1
    /\ val_i = 0
    /\ val_loss = 0
    /\ losses = <<>>
    /\ checkpoint = <<>>
    /\ loss = <<>>
    /\ grad = <<>>
    /\ step_ops = <<>>

\* topk has not been called
TopkIdle ==
    /\ tk_logits = <<>>
    /\ tk_k = 0
    /\ tk_out = [err |-> "not called"]
    /\ tk_idx = Failure("not called")

\* no dataset
DataIdle ==
    /\ ds_tokens = <<>>
    /\ ds_max_len = 1
    /\ ds_out = [idx |-> -1, x |-> <<>>, y |-> <<>>]

InitModel ==
    /\ config \in Configs
    /\ gpt = NotBuilt
    /\ attn = NoCall
    /\ mode = "train"
    /\ params = 0
    /\ GenIdle
    /\ TrainIdle
    /\ TopkIdle
    /\ DataIdle

\* model = GPT(ModelConfig)
Construct ==
    /\ gpt = NotBuilt
    /\ gpt' = GPTInit(config)
    /\ UNCHANGED <<config, attn, mode, params, gvars, tvars, kvars, dvars>>

\* one call of a block's attention layer on an input of seq_len positions
AttentionCall ==
    /\ IsModel(gpt)
    /\ \E l \in 1..config.layers, seq_len \in 1..(MaxContext + 1) :
          attn' = [kind |-> "mha", layer |-> l] @@ MHAForward(gpt.decoder[l].mha, seq_len)
    /\ UNCHANGED <<config, gpt, mode, params, gvars, tvars, kvars, dvars>>

\* one call model(x) with x of shape [batch, seq_len]
ForwardCall ==
    /\ IsModel(gpt)
    /\ \E seq_len \in 1..(MaxContext + 1) :
          attn' = [kind |-> "gpt", seq_len |-> seq_len, result |-> GPTForward(gpt, seq_len)]
    /\ UNCHANGED <<config, gpt, mode, params, gvars, tvars, kvars, dvars>>

NextModel == Construct \/ AttentionCall \/ ForwardCall

vars == <<mvars, gvars, tvars, kvars, dvars>>

SpecModel == InitModel /\ [][NextModel]_vars

----------------------------------------------------------------------------
(* generate                                                                *)

MaxPrefix == 2
MaxNewTokens == 2

Variants == {"greedy", "temperature", "topk"}

\* the vocabulary of the tokenizer: the text of every token id it knows.  The
\* gpt2 encoding knows fewer ids than ModelConfig.vocab, which is rounded up.
TokenText == [t \in {0, 1} |-> IF t = 0 THEN "Once" ELSE " upon"]

\* tokenizer.n_vocab
n_vocab == Cardinality(DOMAIN TokenText)

\* tokenizer.encode(prefix): n >= 1 token ids of the vocabulary
Encoded(n, v) == [j \in 1..n |-> (j - 1) % v]

\* tokenizer.decode(ids): the texts of the ids, KeyError on an id the
\* tokenizer has no token for
Decode(ids) ==
    IF \A j \in DOMAIN ids : ids[j] \in DOMAIN TokenText
    THEN [err |-> "none", text |-> [j \in DOMAIN ids |-> TokenText[ids[j]]]]
    ELSE [err |-> "KeyError", text |-> <<>>]

\* LoopContinues with one iteration too many
LoopContinuesOffByOne(iter, n) == iter <= n

\* for _ in range(max_new_tokens): another iteration follows `iter` completed ones
LoopContinues(iter, n) == iter < n

\* torch.cat((token_ids, next_idx), dim=1)
Cat(ids, next_idx) == Append(ids, next_idx)

\* generate(model, tokenizer, prefix, max_new_tokens, temp) up to the loop:
\* model.eval() and the encoding of the prefix
GenCall(variant, t, n_prefix, n_new) ==
    /\ IsModel(gpt)
    /\ gen_pc \in {"idle", "done", "failed"}
    /\ mode' = "eval"
    /\ gen_pc' = "loop"
    /\ gen_variant' = variant
    /\ temp' = t
    /\ prefix_tokens' = Encoded(n_prefix, n_vocab)
    /\ max_new_tokens' = n_new
    /\ token_ids' = Encoded(n_prefix, n_vocab)
    /\ gen_iter' = 0
    /\ gen_fwd_len' = 0
    /\ gen_error' = "none"
    /\ gen_text' = Decode(Encoded(n_prefix, n_vocab)).text
    /\ UNCHANGED <<config, gpt, attn, params, kvars, dvars>>

\* one iteration of the loop: forward pass, last position's logits, the
\* variant's choice of next_idx, prefix += tokenizer.decode([next_idx]),
\* torch.cat.  An exception ends the call.
GenStep ==
    /\ gen_pc = "loop"
    /\ LoopContinues(gen_iter, max_new_tokens)
    /\ gen_fwd_len' = Len(token_ids)
    /\ LET fwd == GPTForward(gpt, Len(token_ids))
       IN  IF fwd # "ok"
           THEN /\ gen_pc' = "failed"
                /\ gen_error' = fwd
                /\ UNCHANGED <<token_ids, gen_iter, gen_text>>
           ELSE \E logits \in LogitVectors(config.vocab) :
                \E out \in SampleOutcomes(gen_variant, logits, temp) :
                    IF out.err # "none"
                    THEN /\ gen_pc' = "failed"
                         /\ gen_error' = out.err
                         /\ UNCHANGED <<token_ids, gen_iter, gen_text>>
                    ELSE LET piece == Decode(<<out.idx>>)
                         IN  IF piece.err # "none"
                             THEN /\ gen_pc' = "failed"
                                  /\ gen_error' = piece.err
                                  /\ UNCHANGED <<token_ids, gen_iter, gen_text>>
                             ELSE /\ gen_text' = gen_text \o piece.text
                                  /\ token_ids' = Cat(token_ids, out.idx)
                                  /\ gen_iter' = gen_iter + 1
                                  /\ UNCHANGED <<gen_pc, gen_error>>
    /\ UNCHANGED <<mvars, gen_variant, temp, prefix_tokens, max_new_tokens, tvars, kvars, dvars>>

\* the loop is exhausted: return prefix
GenReturn ==
    /\ gen_pc = "loop"
    /\ ~LoopContinues(gen_iter, max_new_tokens)
    /\ gen_pc' = "done"
    /\ UNCHANGED <<mvars, gen_variant, temp, prefix_tokens, max_new_tokens, token_ids,
                   gen_iter, gen_fwd_len, gen_error, gen_text, tvars, kvars, dvars>>

\* a call of generate from a notebook cell, with any variant and arguments
UserGenerate ==
    \E variant \in Variants, t \in TempSet, n_prefix \in 1..MaxPrefix,
       n_new \in 0..MaxNewTokens :
        /\ variant = "greedy" => t = 1
        /\ GenCall(variant, t, n_prefix, n_new)
        /\ UNCHANGED tvars

\* a model built from a valid configuration, nothing generated yet
GenConfigs ==
    [vocab : VocabSizes, emb_dim : {2}, heads : {1, 2}, layers : {1},
     context : 1..MaxContext]

InitGen ==
    /\ config \in GenConfigs
    /\ gpt = GPTInit(config)
    /\ attn = NoCall
    /\ mode = "train"
    /\ params = 0
    /\ GenIdle
    /\ TrainIdle
    /\ TopkIdle
    /\ DataIdle

NextGen == UserGenerate \/ GenStep \/ GenReturn

SpecGen == InitGen /\ [][NextGen]_vars

----------------------------------------------------------------------------
(* topk as a function of its arguments                                     *)

MaxTopkVocab == 4

\* logits next to each other, in the subnormal range below the maximum, and
\* beyond the underflow of softmax
TopkLogitVals == {0, 1, 90, 200}

\* any logits vector of 1..MaxTopkVocab entries and any k, in range or not
InitTopk ==
    /\ config \in {c \in GenConfigs : c.context = 1 /\ c.heads = 1 /\ c.vocab = K_DEFAULT + 1}
    /\ gpt = NotBuilt
    /\ attn = NoCall
    /\ mode = "train"
    /\ params = 0
    /\ GenIdle
    /\ TrainIdle
    /\ DataIdle
    /\ \E v \in 1..MaxTopkVocab :
          /\ tk_logits \in [Tokens(v) -> TopkLogitVals]
          /\ tk_k \in (-1)..(v + 1)
    /\ tk_out = [err |-> "not called"]
    /\ tk_idx = Failure("not called")

\* probs = topk(logits, k)
TopkCall ==
    /\ tk_out.err = "not called"
    /\ tk_out' \in topk(AsFloat(tk_logits), tk_k)
    /\ UNCHANGED <<mvars, gvars, tvars, dvars, tk_logits, tk_k, tk_idx>>

\* next_idx = torch.multinomial(probs, num_samples=1)
TopkDraw ==
    /\ tk_out.err = "none"
    /\ tk_idx' \in Multinomial(tk_out.probs)
    /\ UNCHANGED <<mvars, gvars, tvars, dvars, tk_logits, tk_k, tk_out>>

NextTopk == TopkCall \/ TopkDraw

SpecTopk == InitTopk /\ [][NextTopk]_vars

----------------------------------------------------------------------------
(* WikiTextDataset                                                         *)

MaxTokens == 4
MaxLen == 3

\* tokenizer.eot_token of the gpt2 encoding
eot_token == 50256

\* token ids of the corpus: tokenizer.encode never yields the end-of-text id
TokenVals == {0, 1}

\* s[a:b] of a Python list, for 0 <= a <= b (s is 1-based here)
Slice(s, a, b) ==
    LET lo == Min(a, Len(s))
        hi == Min(b, Len(s))
    IN  [j \in 1..(hi - lo) |-> s[lo + j]]

\* Pad without the padding
PadNothing(x, max_len) == x

\* x + [tokenizer.eot_token] * (max_len - len(x)) when len(x) < max_len
Pad(x, max_len) ==
    IF Len(x) < max_len
    THEN x \o [j \in 1..(max_len - Len(x)) |-> eot_token]
    ELSE x

\* WikiTextDataset.__getitem__
GetItem(tokens, max_len, idx) ==
    LET start == idx * max_len
        x == Slice(tokens, start, start + max_len)
        y == Slice(tokens, start + 1, start + 1 + max_len)
    IN  [idx |-> idx, x |-> Pad(x, max_len), y |-> Pad(y, max_len)]

\* WikiTextDataset.__len__: math.ceil(len(tokens) / max_len)
DatasetLen(tokens, max_len) == (Len(tokens) + max_len - 1) \div max_len

Corpora == UNION {[1..n -> TokenVals] : n \in 1..MaxTokens}

\* WikiTextDataset(tokens, max_len)
InitData ==
    /\ config \in {c \in GenConfigs : c.context = 1 /\ c.heads = 1 /\ c.vocab = K_DEFAULT + 1}
    /\ gpt = NotBuilt
    /\ attn = NoCall
    /\ mode = "train"
    /\ params = 0
    /\ GenIdle
    /\ TrainIdle
    /\ TopkIdle
    /\ ds_tokens \in Corpora
    /\ ds_max_len \in 1..MaxLen
    /\ ds_out = [idx |-> -1, x |-> <<>>, y |-> <<>>]

\* ds[idx] for an index the loader uses, 0 <= idx < len(ds)
GetItemCall ==
    /\ \E idx \in 0..(DatasetLen(ds_tokens, ds_max_len) - 1) :
          ds_out' = GetItem(ds_tokens, ds_max_len, idx)
    /\ UNCHANGED <<mvars, gvars, tvars, kvars, ds_tokens, ds_max_len>>

NextData == GetItemCall

SpecData == InitData /\ [][NextData]_vars

----------------------------------------------------------------------------
(* evaluate and the training cell                                          *)

MaxEpochs == 2
MaxBatches == 2
MaxLogFreq == 2

\* len(val_dl)
ValBatches == 2

\* the batches of train_dl and val_dl are context-long sequences
BatchSeqLen == config.context

\* a log block that writes the checkpoint before it evaluates
SaveBeforeEvaluateOrder == <<"save", "evaluate", "append", "generate">>

\* the statements of the `if i % log_freq == 0:` block that act on the model,
\* the list and the file, in program order
LogBlockOrder == <<"evaluate", "append", "save", "generate">>

\* a training step that clears the gradients after the update
ClearAfterUpdateOrder == <<"train", "forward", "loss", "backward", "step", "zero_grad">>

\* the statements of a training step, in program order
TrainStepOrder == <<"train", "forward", "loss", "zero_grad", "backward", "step">>

\* i % log_freq == 0
LogDue(idx, freq) == (idx % freq) = 0

\* the statement that follows `op` in the body of the inner loop; "head" is the
\* inner loop's next iteration
After(op) ==
    IF \E n \in DOMAIN LogBlockOrder : LogBlockOrder[n] = op
    THEN LET n == CHOOSE n \in DOMAIN LogBlockOrder : LogBlockOrder[n] = op
         IN  IF n < Len(LogBlockOrder) THEN LogBlockOrder[n + 1] ELSE TrainStepOrder[1]
    ELSE LET n == CHOOSE n \in DOMAIN TrainStepOrder : TrainStepOrder[n] = op
         IN  IF n < Len(TrainStepOrder) THEN TrainStepOrder[n + 1] ELSE "head"

\* the sample generation of the training cell: generate(model, tokenizer, prefix)
\* with the defaults of max_new_tokens and temp
SamplePrefixLen == 1
SampleNewTokens == 10
DefaultTemp == 1

\* the longest sequence the sample generation hands to the model
SampleFwdLen == SamplePrefixLen + SampleNewTokens - 1

\* the training cell starts: log_freq, epochs, losses = []
StartTraining ==
    /\ tr_pc = "idle"
    /\ IsModel(gpt)
    /\ \E e \in 1..MaxEpochs, f \in 1..MaxLogFreq, n \in 0..MaxBatches :
          /\ epochs' = e
          /\ log_freq' = f
          /\ n_batches' = n
    /\ tr_pc' = "head"
    /\ epoch' = 0
    /\ batch_i' = -1
    /\ losses' = <<>>
    /\ UNCHANGED <<mvars, gvars, kvars, dvars, val_i, val_loss, checkpoint, loss, grad,
                   step_ops>>

\* the inner loop yields its next batch; the log_freq check
NextBatch ==
    /\ tr_pc = "head"
    /\ epoch < epochs
    /\ batch_i + 1 < n_batches
    /\ batch_i' = batch_i + 1
    /\ tr_pc' = IF LogDue(batch_i + 1, log_freq) THEN LogBlockOrder[1] ELSE TrainStepOrder[1]
    /\ step_ops' = <<>>
    /\ UNCHANGED <<mvars, gvars, kvars, dvars, epochs, log_freq, n_batches, epoch, val_i,
                   val_loss, losses, checkpoint, loss, grad>>

\* train_dl is exhausted: the outer loop's next epoch
NextEpoch ==
    /\ tr_pc = "head"
    /\ epoch < epochs
    /\ batch_i + 1 >= n_batches
    /\ epoch' = epoch + 1
    /\ batch_i' = -1
    /\ UNCHANGED <<mvars, gvars, kvars, dvars, tr_pc, epochs, log_freq, n_batches, val_i,
                   val_loss, losses, checkpoint, loss, grad, step_ops>>

\* range(epochs) is exhausted
Finish ==
    /\ tr_pc = "head"
    /\ epoch >= epochs
    /\ tr_pc' = "done"
    /\ UNCHANGED <<mvars, gvars, kvars, dvars, epochs, log_freq, n_batches, epoch, batch_i,
                   val_i, val_loss, losses, checkpoint, loss, grad, step_ops>>

\* evaluate(model, val_dl): model.eval(); loss = 0
EvalEnter ==
    /\ tr_pc = "evaluate"
    /\ mode' = "eval"
    /\ val_i' = 0
    /\ tr_pc' = "eval_loop"
    /\ UNCHANGED <<config, gpt, attn, params, gvars, kvars, dvars, epochs, log_freq,
                   n_batches, epoch, batch_i, val_loss, losses, checkpoint, loss, grad,
                   step_ops>>

\* EvalBatch with an optimizer update in the validation loop
EvalBatchWithUpdate ==
    /\ tr_pc = "eval_loop"
    /\ val_i < ValBatches
    /\ val_i' = val_i + 1
    /\ params' = params + 1
    /\ UNCHANGED <<config, gpt, attn, mode, gvars, kvars, dvars, tr_pc, epochs, log_freq,
                   n_batches, epoch, batch_i, val_loss, losses, checkpoint, loss, grad,
                   step_ops>>

\* evaluate: one validation batch, forward pass and cross entropy under no_grad
EvalBatch ==
    /\ tr_pc = "eval_loop"
    /\ val_i < ValBatches
    /\ IF GPTForward(gpt, BatchSeqLen) = "ok"
       THEN val_i' = val_i + 1 /\ tr_pc' = tr_pc
       ELSE val_i' = val_i /\ tr_pc' = "failed"
    /\ UNCHANGED <<mvars, gvars, kvars, dvars, epochs, log_freq, n_batches, epoch, batch_i,
                   val_loss, losses, checkpoint, loss, grad, step_ops>>

\* evaluate: model.train(); return loss / len(dl)
EvalExit ==
    /\ tr_pc = "eval_loop"
    /\ val_i >= ValBatches
    /\ mode' = "train"
    /\ val_loss' = params
    /\ tr_pc' = After("evaluate")
    /\ UNCHANGED <<config, gpt, attn, params, gvars, kvars, dvars, epochs, log_freq,
                   n_batches, epoch, batch_i, val_i, losses, checkpoint, loss, grad,
                   step_ops>>

\* losses.append(val_loss)
AppendLoss ==
    /\ tr_pc = "append"
    /\ losses' = Append(losses, val_loss)
    /\ tr_pc' = After("append")
    /\ UNCHANGED <<mvars, gvars, kvars, dvars, epochs, log_freq, n_batches, epoch, batch_i,
                   val_i, val_loss, checkpoint, loss, grad, step_ops>>

\* torch.save(model.state_dict(), "model.pth")
SaveCheckpoint ==
    /\ tr_pc = "save"
    /\ checkpoint' = Append(checkpoint, params)
    /\ tr_pc' = After("save")
    /\ UNCHANGED <<mvars, gvars, kvars, dvars, epochs, log_freq, n_batches, epoch, batch_i,
                   val_i, val_loss, losses, loss, grad, step_ops>>

\* print(generate(model, tokenizer, prefix)): the call, with the definition
\* of generate the notebook holds when it reaches the training cell
SampleCall ==
    /\ tr_pc = "generate"
    /\ GenCall("greedy", DefaultTemp, SamplePrefixLen, SampleNewTokens)
    /\ tr_pc' = "generating"
    /\ UNCHANGED <<epochs, log_freq, n_batches, epoch, batch_i, val_i, val_loss, losses,
                   checkpoint, loss, grad, step_ops>>

\* generate has returned and its text is printed, or its exception ends the cell
SampleEnd ==
    /\ tr_pc = "generating"
    /\ gen_pc \in {"done", "failed"}
    /\ tr_pc' = IF gen_pc = "done" THEN After("generate") ELSE "failed"
    /\ gen_pc' = "idle"
    /\ gen_variant' = "greedy"
    /\ temp' = 1
    /\ prefix_tokens' = <<>>
    /\ max_new_tokens' = 0
    /\ token_ids' = <<>>
    /\ gen_iter' = 0
    /\ gen_fwd_len' = 0
    /\ gen_error' = "none"
    /\ gen_text' = <<>>
    /\ UNCHANGED <<mvars, kvars, dvars, epochs, log_freq, n_batches, epoch, batch_i,
                   val_i, val_loss, losses, checkpoint, loss, grad, step_ops>>

\* a training step whose model.train() call has no effect on the mode
TrainModeSkipped ==
    /\ tr_pc = "train"
    /\ tr_pc' = After("train")
    /\ UNCHANGED <<mvars, gvars, kvars, dvars, epochs, log_freq,
                   n_batches, epoch, batch_i, val_i, val_loss, losses, checkpoint, loss,
                   grad, step_ops>>

\* model.train()
TrainMode ==
    /\ tr_pc = "train"
    /\ mode' = "train"
    /\ tr_pc' = After("train")
    /\ UNCHANGED <<config, gpt, attn, params, gvars, kvars, dvars, epochs, log_freq,
                   n_batches, epoch, batch_i, val_i, val_loss, losses, checkpoint, loss,
                   grad, step_ops>>

\* logits = model(x)
Forward ==
    /\ tr_pc = "forward"
    /\ tr_pc' = IF GPTForward(gpt, BatchSeqLen) = "ok" THEN After("forward") ELSE "failed"
    /\ step_ops' = Append(step_ops, "forward")
    /\ UNCHANGED <<mvars, gvars, kvars, dvars, epochs, log_freq, n_batches, epoch, batch_i,
                   val_i, val_loss, losses, checkpoint, loss, grad>>

\* loss = F.cross_entropy(logits.flatten(0, 1), y.flatten())
Loss ==
    /\ tr_pc = "loss"
    /\ loss' = <<epoch, batch_i>>
    /\ tr_pc' = After("loss")
    /\ step_ops' = Append(step_ops, "loss")
    /\ UNCHANGED <<mvars, gvars, kvars, dvars, epochs, log_freq, n_batches, epoch, batch_i,
                   val_i, val_loss, losses, checkpoint, grad>>

\* optimizer.zero_grad()
ZeroGrad ==
    /\ tr_pc = "zero_grad"
    /\ grad' = <<>>
    /\ tr_pc' = After("zero_grad")
    /\ step_ops' = Append(step_ops, "zero_grad")
    /\ UNCHANGED <<mvars, gvars, kvars, dvars, epochs, log_freq, n_batches, epoch, batch_i,
                   val_i, val_loss, losses, checkpoint, loss>>

\* loss.backward(): gradients are added to what the .grad fields hold
Backward ==
    /\ tr_pc = "backward"
    /\ grad' = Append(grad, loss)
    /\ tr_pc' = After("backward")
    /\ step_ops' = Append(step_ops, "backward")
    /\ UNCHANGED <<mvars, gvars, kvars, dvars, epochs, log_freq, n_batches, epoch, batch_i,
                   val_i, val_loss, losses, checkpoint, loss>>

\* optimizer.step(): parameters whose .grad is None are skipped
OptimizerStep ==
    /\ tr_pc = "step"
    /\ params' = IF grad = <<>> THEN params ELSE params + 1
    /\ tr_pc' = After("step")
    /\ step_ops' = Append(step_ops, "step")
    /\ UNCHANGED <<config, gpt, attn, mode, gvars, kvars, dvars, epochs, log_freq,
                   n_batches, epoch, batch_i, val_i, val_loss, losses, checkpoint, loss,
                   grad>>

\* state_dict = torch.load("model.pth"); model.load_state_dict(state_dict):
\* the cell after the training cell.  Without a file torch.load raises.
LoadCheckpoint ==
    /\ tr_pc \in {"done", "failed"}
    /\ IF checkpoint = <<>>
       THEN /\ tr_pc' = "load_failed"
            /\ params' = params
       ELSE /\ tr_pc' = "loaded"
            /\ params' = checkpoint[Len(checkpoint)]
    /\ UNCHANGED <<config, gpt, attn, mode, gvars, kvars, dvars, epochs, log_freq,
                   n_batches, epoch, batch_i, val_i, val_loss, losses, checkpoint, loss,
                   grad, step_ops>>

\* print(generate(model, tokenizer, "Once upon a time")) in the cells after
\* the load: the arguments of the sample generation, with each definition of
\* generate the notebook holds by then
InferenceGenerate ==
    /\ tr_pc = "loaded"
    /\ \E variant \in Variants :
          GenCall(variant, DefaultTemp, SamplePrefixLen, SampleNewTokens)
    /\ UNCHANGED tvars

\* a model built from a valid configuration, with a context that holds the
\* sample generation or one that is too short for it
TrainConfigs ==
    [vocab : {4}, emb_dim : {2}, heads : {2}, layers : {1},
     context : {MaxContext, SampleFwdLen}]

InitTrain ==
    /\ config \in TrainConfigs
    /\ gpt = GPTInit(config)
    /\ attn = NoCall
    /\ mode = "train"
    /\ params = 0
    /\ GenIdle
    /\ TrainIdle
    /\ TopkIdle
    /\ DataIdle

NextTrain ==
    \/ StartTraining \/ NextBatch \/ NextEpoch \/ Finish
    \/ EvalEnter \/ EvalBatch \/ EvalExit \/ AppendLoss \/ SaveCheckpoint
    \/ SampleCall \/ GenStep \/ GenReturn \/ SampleEnd
    \/ TrainMode \/ Forward \/ Loss \/ ZeroGrad \/ Backward \/ OptimizerStep
    \/ LoadCheckpoint \/ InferenceGenerate

SpecTrain == InitTrain /\ [][NextTrain]_vars

----------------------------------------------------------------------------
(* Claims about generate (SpecGen)                                         *)

\* C1: a generate call appends exactly one token per completed loop step, and a
\* call that returns has run exactly max_new_tokens steps, so its token
\* sequence has length len(prefix_tokens) + max_new_tokens.
C1_ReturnedLength ==
    /\ gen_pc \in {"loop", "done"} =>
          /\ Len(token_ids) = Len(prefix_tokens) + gen_iter
          /\ gen_iter <= max_new_tokens
          /\ gen_text = Decode(token_ids).text
    /\ gen_pc = "done" =>
          /\ gen_iter = max_new_tokens
          /\ Len(token_ids) = Len(prefix_tokens) + max_new_tokens
          /\ Len(gen_text) = Len(prefix_tokens) + max_new_tokens

C1_Witness ==
    /\ gen_pc = "done"
    /\ gen_variant = "topk"
    /\ max_new_tokens = MaxNewTokens
    /\ Len(token_ids) = Len(prefix_tokens) + MaxNewTokens

\* C2: no forward pass of a generate call is run on a sequence longer than
\* context_length (no positional index reaches context_length).
C2_ForwardWithinContext == gen_fwd_len <= config.context

\* C4: a sampling step with temperature <= 0, or with k outside
\* [1, vocab_size], yields an error and appends no token.
C4_BadParametersFail ==
    (/\ gen_pc # "idle"
     /\ \/ gen_variant \in {"temperature", "topk"} /\ temp <= 0
        \/ gen_variant = "topk" /\ K_DEFAULT \notin 1..config.vocab)
    => /\ token_ids = prefix_tokens
       /\ gen_iter = 0

----------------------------------------------------------------------------
(* Claims about the architecture (SpecModel)                               *)

\* C3: construction from a Config whose embedding_dim is not divisible by
\* heads fails and produces no model, whatever the number of layers.
C3_NonDivisibleFails ==
    (gpt # NotBuilt /\ config.emb_dim % config.heads # 0)
    => gpt.status = "AssertionError"

\* C6: an attention call with seq_len in 1..context_length applies the
\* seq_len x seq_len mask that disallows (i, j) iff j > i, and the stored
\* context_length x context_length mask is the same after any number of calls.
C6_CausalMask ==
    /\ (attn.kind = "mha" /\ attn.seq_len <= config.context) =>
          /\ attn.result = "ok"
          /\ DOMAIN attn.mask = 0..(attn.seq_len - 1)
          /\ \A i \in 0..(attn.seq_len - 1) :
                /\ DOMAIN attn.mask[i] = 0..(attn.seq_len - 1)
                /\ \A j \in 0..(attn.seq_len - 1) : attn.mask[i][j] = (j > i)
    /\ IsModel(gpt) =>
          \A l \in 1..config.layers :
             gpt.decoder[l].mha.mask =
                [i \in 0..(config.context - 1) |->
                    [j \in 0..(config.context - 1) |-> j > i]]

C6_Witness ==
    /\ attn.kind = "mha"
    /\ attn.result = "ok"
    /\ attn.seq_len = 2
    /\ config.context > 2

----------------------------------------------------------------------------
(* Claims about topk (SpecTopk)                                            *)

TopkSupport == {j \in DOMAIN tk_logits : tk_out.probs[j] # "zero"}

TopkInRange == tk_out.err # "not called" /\ tk_k \in 1..Cardinality(DOMAIN tk_logits)

MaxLogitIndices ==
    {j \in DOMAIN tk_logits : \A o \in DOMAIN tk_logits : tk_logits[o] <= tk_logits[j]}

\* C5 (as stated): for 1 <= k <= vocab_size the top-k distribution is nonzero
\* on exactly k indices, each with a logit >= that of every excluded index,
\* and with k = 1 the only index that can be drawn is the greedy index.
C5_TopOneIsGreedy ==
    TopkInRange =>
       /\ tk_out.err = "none"
       /\ Cardinality(TopkSupport) = tk_k
       /\ \A s \in TopkSupport : \A o \in (DOMAIN tk_logits) \ TopkSupport :
             tk_logits[s] >= tk_logits[o]
       /\ \A s \in TopkSupport : tk_out.probs[s] = "pos"
       /\ tk_k = 1 =>
             /\ TopkSupport = {Argmax(tk_logits)}
             /\ tk_idx.err = "none" => tk_idx.idx = Argmax(tk_logits)

\* the indices whose logit is close enough to the maximum for float32
\* softmax to keep their probability away from the subnormal range
NearMax ==
    {j \in DOMAIN tk_logits :
        \A o \in DOMAIN tk_logits : tk_logits[o] - tk_logits[j] < SubnormalGap}

\* C5 (amended): for 1 <= k <= vocab_size the top-k distribution is nonzero
\* on at least one and at most k indices, each with a logit >= that of every
\* index of probability zero, and on exactly k indices when k logits are
\* close enough to the maximum for softmax not to underflow; only an index of
\* nonzero probability can be drawn.  With k = 1 the only index that can be
\* drawn is an index of the maximum logit, which is the greedy index
\* whenever the maximum is attained once.
C5_TopkSupport ==
    TopkInRange =>
       /\ tk_out.err = "none"
       /\ Cardinality(TopkSupport) \in 1..tk_k
       /\ Cardinality(TopkSupport) >= Min(tk_k, Cardinality(NearMax))
       /\ TopkSupport \cap MaxLogitIndices # {}
       /\ \A s \in TopkSupport : \A o \in (DOMAIN tk_logits) \ TopkSupport :
             tk_logits[s] >= tk_logits[o]
       /\ \A s \in TopkSupport : tk_out.probs[s] = "pos"
       /\ tk_idx.err = "none" => tk_idx.idx \in TopkSupport
       /\ tk_k = 1 =>
             /\ TopkSupport \subseteq MaxLogitIndices
             /\ tk_idx.err = "none" => tk_idx.idx \in MaxLogitIndices
             /\ Cardinality(MaxLogitIndices) = 1 =>
                   /\ TopkSupport = {Argmax(tk_logits)}
                   /\ tk_idx.err = "none" => tk_idx.idx = Argmax(tk_logits)

\* top-2 of three logits whose second largest underflows in softmax: one
\* index has nonzero probability, and it was drawn
C5_Witness ==
    /\ TopkInRange
    /\ tk_k = 2
    /\ Cardinality(DOMAIN tk_logits) = 3
    /\ Cardinality(MaxLogitIndices) = 1
    /\ Cardinality(TopkSupport) = 1
    /\ tk_idx.err = "none"
    /\ tk_idx.idx = Argmax(tk_logits)

----------------------------------------------------------------------------
(* Claims about the dataset (SpecData)                                     *)

\* C10: for a corpus of T >= 1 tokens and sequence length L, item i of
\* 0..ceil(T/L)-1 has input and target of length exactly L, input[j] =
\* tokens[i*L + j] and target[j] = tokens[i*L + j + 1] where that corpus
\* position exists and the end-of-text id otherwise, so target[j] = input[j+1]
\* wherever input[j+1] is a corpus token.
C10_ShiftedPaddedPair ==
    ds_out.idx >= 0 =>
       LET L == ds_max_len
           T == Len(ds_tokens)
           base == ds_out.idx * ds_max_len
       IN  /\ ds_out.idx <= ((T + L - 1) \div L) - 1
           /\ Len(ds_out.x) = L
           /\ Len(ds_out.y) = L
           /\ \A j \in 0..(L - 1) :
                 /\ ds_out.x[j + 1] = IF base + j < T THEN ds_tokens[base + j + 1]
                                      ELSE eot_token
                 /\ ds_out.y[j + 1] = IF base + j + 1 < T THEN ds_tokens[base + j + 2]
                                      ELSE eot_token
           /\ \A j \in 0..(L - 2) :
                 base + j + 1 < T => ds_out.y[j + 1] = ds_out.x[j + 2]

\* the last item of a corpus that is an exact multiple of L: a full input,
\* a target that runs one token short
C10_Witness ==
    /\ ds_max_len = 2
    /\ Len(ds_tokens) = 4
    /\ ds_out.idx = 1
    /\ ds_out.x = <<ds_tokens[3], ds_tokens[4]>>
    /\ ds_out.y = <<ds_tokens[4], eot_token>>

----------------------------------------------------------------------------
(* Claims about the training cell (SpecTrain)                              *)

\* the inner loop's body has run to its end at least once
StepComplete == tr_pc \in {"head", "done"} /\ step_ops # <<>>

\* C7 (as stated): a training step runs forward pass, loss, back-propagation,
\* one optimizer update, then gradient clearing, so the gradients are
\* cleared when the next step begins.
C7_ClearAfterUpdate ==
    StepComplete =>
       /\ step_ops = <<"forward", "loss", "backward", "step", "zero_grad">>
       /\ grad = <<>>

\* C7 (amended): a training step runs forward pass, loss, gradient clearing,
\* back-propagation, then exactly one optimizer update.  Every update applies
\* the gradient of the current batch alone, the gradients stay in place after
\* the update until the next step clears them, and no update happens while a
\* validation or generation forward pass is running.
C7_ClearBeforeBackward ==
    /\ StepComplete =>
          /\ step_ops = <<"forward", "loss", "zero_grad", "backward", "step">>
          /\ grad = <<loss>>
    /\ tr_pc = "step" =>
          /\ grad = <<<<epoch, batch_i>>>>
          /\ gen_pc = "idle"
          /\ val_i = ValBatches
    /\ tr_pc = "head" => params = epoch * n_batches + batch_i + 1
    /\ tr_pc \notin {"idle", "head", "done", "failed", "loaded", "load_failed"} =>
          params = epoch * n_batches + batch_i
    /\ tr_pc = "done" => params = epochs * n_batches

C7_Witness ==
    /\ tr_pc = "head"
    /\ params = 2
    /\ step_ops = <<"forward", "loss", "zero_grad", "backward", "step">>
    /\ grad = <<<<epoch, batch_i>>>>

\* C8: counting optimizer updates over the whole run, any two consecutive
\* evaluations are separated by exactly log_freq updates.  (An entry of
\* `losses` is the number of updates behind the parameters it was computed on.)
C8_EveryLogFreqSteps ==
    \A n \in 1..(Len(losses) - 1) : losses[n + 1] - losses[n] = log_freq

\* the optimizer update of a training step changes the parameter set
UpdateInStep == tr_pc = "step" /\ tr_pc' = After("step") /\ params' = params + 1

\* C9 (as stated): the parameter set changes only in the optimizer update of
\* a training step: evaluate, generate, the checkpoint write and the forward
\* pass, loss and back-propagation of a step leave it as it is.
C9_OnlyOptimizerUpdates == [][params' # params => UpdateInStep]_vars

\* C9 (amended): the parameter set changes only in the optimizer update of a
\* training step and when the saved checkpoint is loaded back after the
\* training cell has ended, which sets it to the last checkpoint written:
\* evaluate, generate (every variant), the checkpoint write and the forward
\* pass, loss and back-propagation of a step leave it as it is.
C9_OnlyUpdateOrLoad ==
    [][params' # params =>
         \/ UpdateInStep
         \/ /\ tr_pc \in {"done", "failed"}
            /\ tr_pc' = "loaded"
            /\ params' = checkpoint[Len(checkpoint)]]_vars

\* two checkpoints were written, the run ended on later parameters, the
\* checkpoint was loaded back and a sampling generate call has returned
C9_Witness ==
    /\ tr_pc = "loaded"
    /\ Len(checkpoint) >= 2
    /\ params = checkpoint[Len(checkpoint)]
    /\ params >= 1
    /\ params < epochs * n_batches
    /\ gen_pc = "done"
    /\ gen_variant = "temperature"
    /\ gen_iter >= 1

\* the statements of a training step that run a forward pass, a backward pass
\* or an optimizer update
TrainingWork == {"forward", "loss", "zero_grad", "backward", "step"}

\* C11: every training forward pass and every optimizer update runs with the
\* model in training mode, and every validation forward pass runs in
\* evaluation mode, whatever the interleaving of training steps with the
\* periodic evaluate-then-generate blocks; the sample generation of such a
\* block leaves the model in evaluation mode, and the training step that
\* follows it still runs in training mode.
C11_ModeOfEveryPass ==
    /\ tr_pc \in TrainingWork => mode = "train"
    /\ tr_pc = "eval_loop" => mode = "eval"
    /\ tr_pc = "generating" => mode = "eval"
    /\ (tr_pc = "train" /\ LogDue(batch_i, log_freq)) => mode = "eval"

\* the optimizer update of a training step that follows an evaluation and a
\* sample generation, after an earlier update, ran in training mode
C11_Witness ==
    /\ tr_pc = "step"
    /\ LogDue(batch_i, log_freq)
    /\ Len(checkpoint) >= 2
    /\ params >= 1
    /\ grad # <<>>
    /\ mode = "train"

\* the checkpoint file holds the parameters of the most recently recorded
\* validation loss, and as many checkpoints were written as losses recorded
CheckpointIsLastRecorded ==
    /\ Len(checkpoint) = Len(losses)
    /\ losses # <<>> => checkpoint[Len(checkpoint)] = losses[Len(losses)]

\* a run that ended after at least one optimizer update left the checkpoint
\* of its last evaluation, which is not the final parameter set
StaleAtEnd ==
    (tr_pc = "done" /\ params >= 1) =>
        /\ checkpoint # <<>>
        /\ checkpoint[Len(checkpoint)] = losses[Len(losses)]
        /\ checkpoint[Len(checkpoint)] # params

\* C12 as stated: at every point of a training run the checkpoint holds the
\* parameters of the most recently recorded validation loss and the number of
\* checkpoints written equals the number of recorded losses; a run that ends
\* after an optimizer update leaves the checkpoint of its last evaluation.
C12_AtEveryPoint ==
    /\ CheckpointIsLastRecorded
    /\ StaleAtEnd

\* C12, amended: the checkpoint holds the parameters of the most recently
\* recorded validation loss at every point of a training run except between
\* losses.append and torch.save of one log block, where the loss just
\* recorded has no checkpoint yet; no optimizer update happens between an
\* evaluation and its checkpoint write, so that write stores the evaluated
\* parameters; every checkpoint written holds the parameters of the loss
\* recorded in the same block; a run that ends after an optimizer update
\* leaves the checkpoint of its last evaluation, not the final parameters.
C12_CheckpointIsLastEvaluated ==
    /\ tr_pc # "save" => (checkpoint = losses /\ CheckpointIsLastRecorded)
    /\ tr_pc = "save" => losses = Append(checkpoint, params)
    /\ tr_pc = "append" => val_loss = params
    /\ StaleAtEnd

\* a run with two evaluations and two later optimizer updates has ended
C12_Witness ==
    /\ tr_pc = "done"
    /\ params >= 2
    /\ Len(checkpoint) >= 2
    /\ checkpoint[Len(checkpoint)] >= 1
    /\ checkpoint[Len(checkpoint)] < params

=============================================================================
